---- MODULE Spec2Model ----
(***************************************************************************)
(* Order / prescription lifecycle of the pharmacy marketplace backend:     *)
(* the order controller, the pharmacy controller, the prescription         *)
(* controller, the Order and Medicine models and the Scheduler.            *)
(*                                                                         *)
(* Every request handler is an async function.  A handler runs without     *)
(* interruption between two awaits, so each await (a store read, a store   *)
(* write) ends one step of the model; the steps of different in-flight     *)
(* handlers interleave freely.  A handler works on its own copy of the     *)
(* document it read; save() writes back the paths the handler modified.    *)
(*                                                                         *)
(* Time is counted in minutes.                                             *)
(***************************************************************************)
EXTENDS Integers, Sequences, FiniteSets, TLC

\* ---------------------------------------------------------------- bounds
MaxOrders == 2
MaxThreads == 2
MaxTime == 15
TickMinutes == 5
MaxTimeline == 5
MaxCalls == 4
MaxCartQty == 3
MaxBoots == 2
MaxRx == 2
MaxDays == 2

\* ------------------------------------------------------ program constants
\* startPharmacyApprovalTimer / startCustomerConfirmationTimer: 10 * 60 * 1000 ms
ApprovalWindowMinutes == 10
ConfirmationWindowMinutes == 10
\* calculateDeliveryCharge
BaseCharge == 50
FreeDeliveryAbove == 500

\* ------------------------------------------------------------ test data
Medicines == {"m1", "m2"}
InitStock == [m \in Medicines |-> IF m = "m1" THEN 3 ELSE 2]
Price == [m \in Medicines |-> IF m = "m1" THEN 300 ELSE 400]
\* 0 stands for "no discountedPrice": JavaScript treats undefined and 0 alike
\* in `a || b` and in `if (a)`.
DiscountedPrice == [m \in Medicines |-> IF m = "m1" THEN 0 ELSE 350]

OrderIds == 1..MaxOrders
Threads == 1..MaxThreads
NoDate == 0 - 1
RxIds == 1..MaxRx

\* Requests to createOrder: the items of the body (medicine, quantity).
ItemInputs ==
  { << [medicine |-> "m1", quantity |-> 1] >>,
    << [medicine |-> "m2", quantity |-> 2], [medicine |-> "m1", quantity |-> 1] >> }

VARIABLES
  stock,      \* Medicine.stock, per medicine (the store)
  orders,     \* Order documents in the store, by id; status "none" = not created
  rx,         \* Prescription documents in the store, by id
  jobs,       \* Scheduler.jobs: order id -> the job armed for it
  now,        \* wall clock, minutes
  calls,      \* in-flight handler invocations, per worker
  adj,        \* history: net stock delta of the pharmacy's successful stock updates
  nCalls,     \* history: number of handler invocations started
  fired,      \* history: number of runs of the timeout callback, per order
  boots       \* history: number of starts of the process

vars == <<stock, orders, rx, jobs, now, calls, adj, nCalls, fired, boots>>

\* ------------------------------------------------------------- documents
NoOrder ==
  [ status |-> "none", items |-> <<>>, prescription |-> FALSE,
    totalAmount |-> 0, discountedAmount |-> 0, deliveryCharge |-> 0, finalAmount |-> 0,
    pharmacyApprovalEnd |-> NoDate, customerConfirmationEnd |-> NoDate,
    timeline |-> <<>> ]

Idle ==
  [ op |-> "idle", pc |-> "idle", o |-> 0, m |-> "none", q |-> 0, st |-> "", rd |-> "",
    idx |-> 0, n |-> 0, seen |-> 0, items |-> <<>>, rx |-> FALSE, p |-> 0, res |-> "" ]

\* An entry of Scheduler.jobs: has = the map holds the job id, armed = the
\* one-off job is still to fire, at fireAt
NoJob == [has |-> FALSE, armed |-> FALSE, fireAt |-> NoDate]

\* A Prescription document: history and forwardedTo are the lengths of the
\* arrays; frequency is the refill period in days
RxDoc(status, order) ==
  [ status |-> status, order |-> order, pharmacy |-> "ph1",
    validity |-> NoDate, isRecurring |-> FALSE, remainingRefills |-> 0,
    nextRefillDate |-> NoDate, frequency |-> "none", history |-> 0, forwardedTo |-> 0 ]

\* The store's prescriptions at the start: pending, the first one linked to
\* the customer's first order
RxStore == [p \in RxIds |-> RxDoc("pending", IF p = 1 THEN 1 ELSE 0)]

Exists(o) == orders[o].status # "none"

\* A worker takes a request: workers are interchangeable, the free one with
\* the lowest number takes it
FreeWorker(t) ==
  /\ calls[t] = Idle
  /\ \A u \in Threads : u < t => calls[u] # Idle

CanStart(t) ==
  /\ FreeWorker(t)
  /\ nCalls < MaxCalls
  /\ nCalls' = nCalls + 1

\* ------------------------------------------------------- pure functions
RECURSIVE SumTotal(_)
SumTotal(items) ==
  IF items = <<>> THEN 0
  ELSE Head(items).price * Head(items).quantity + SumTotal(Tail(items))

\* createOrder: discountedAmount += (discountedPrice || price) * quantity
RECURSIVE SumDiscounted(_)
SumDiscounted(items) ==
  IF items = <<>> THEN 0
  ELSE (IF Head(items).discountedPrice # 0 THEN Head(items).discountedPrice
        ELSE Head(items).price) * Head(items).quantity + SumDiscounted(Tail(items))

calculateDeliveryCharge(orderAmount) ==
  IF orderAmount > FreeDeliveryAbove THEN 0 ELSE BaseCharge

\* createOrder: the validated items, each with the catalog prices, selected
validatedItems(items) ==
  [ i \in 1..Len(items) |->
      [ medicine |-> items[i].medicine, quantity |-> items[i].quantity,
        price |-> Price[items[i].medicine],
        discountedPrice |-> DiscountedPrice[items[i].medicine],
        selected |-> TRUE ] ]

\* createOrder: the document handed to Order.create
newOrder(items, hasPrescription) ==
  LET vi == validatedItems(items)
      totalAmount == SumTotal(vi)
      discountedAmount == SumDiscounted(vi)
      deliveryCharge == calculateDeliveryCharge(totalAmount)
  IN [ NoOrder EXCEPT
         !.status = IF hasPrescription THEN "pending_approval" ELSE "approved",
         !.items = vi,
         !.prescription = hasPrescription,
         !.totalAmount = totalAmount,
         !.discountedAmount = discountedAmount,
         !.deliveryCharge = deliveryCharge,
         !.finalAmount = discountedAmount + deliveryCharge ]

\* updateMedicineStock, one iteration: an unconditional $inc by -quantity
updateMedicineStock(stk, item) ==
  IF item.selected THEN [stk EXCEPT ![item.medicine] = @ - item.quantity] ELSE stk

\* restoreMedicineStock, one iteration: $inc by +quantity
restoreMedicineStock(stk, item) ==
  IF item.selected THEN [stk EXCEPT ![item.medicine] = @ + item.quantity] ELSE stk

\* orderSchema.methods.addTimelineEvent: push, then save
addTimelineEvent(order, status, note) ==
  [order EXCEPT !.timeline = Append(@, [status |-> status, note |-> note])]

\* ---------------------------------------------------------------- Init
Init ==
  /\ stock = InitStock
  /\ orders = [o \in OrderIds |-> NoOrder]
  /\ rx = RxStore
  /\ jobs = [o \in OrderIds |-> NoJob]
  /\ now = 0
  /\ calls = [t \in Threads |-> Idle]
  /\ adj = [m \in Medicines |-> 0]
  /\ nCalls = 0
  /\ fired = [o \in OrderIds |-> 0]
  /\ boots = 1

\* ------------------------------------------------------------ createOrder
\* Orders not yet created and not claimed by an in-flight createOrder
FreeIds == {o \in OrderIds : ~Exists(o)}
PendingCreates == {t \in Threads : calls[t].op = "createOrder" /\ calls[t].pc = "create"}

\* createOrder up to Order.create, for a request that names an active, verified
\* pharmacy and a free delivery slot: every item's stock is read and compared
\* with the requested quantity
StartCreateOrder(t, items, hasPrescription) ==
  /\ CanStart(t)
  /\ Cardinality(PendingCreates) < Cardinality(FreeIds)
  /\ calls' = [calls EXCEPT ![t] =
       IF \E i \in 1..Len(items) : stock[items[i].medicine] < items[i].quantity
       THEN [Idle EXCEPT !.op = "createOrder", !.pc = "done", !.res = "badRequest"]
       ELSE [Idle EXCEPT !.op = "createOrder", !.pc = "create",
                         !.items = items, !.rx = hasPrescription]]
  /\ UNCHANGED <<stock, orders, rx, jobs, now, adj, fired, boots>>

\* Order.create
CreateOrderCreate(t) ==
  /\ calls[t].op = "createOrder" /\ calls[t].pc = "create"
  /\ LET o == CHOOSE k \in FreeIds : \A j \in FreeIds : k <= j
         doc == newOrder(calls[t].items, calls[t].rx)
     IN /\ orders' = [orders EXCEPT ![o] = doc]
        /\ calls' = [calls EXCEPT ![t] =
             [@ EXCEPT !.o = o, !.st = doc.status, !.idx = 1,
                       !.pc = IF ~calls[t].rx THEN "stock"
                              ELSE IF doc.status = "pending_approval" THEN "timer"
                              ELSE "timeline"]]
  /\ UNCHANGED <<stock, rx, jobs, now, adj, nCalls, fired, boots>>

\* if (!prescription) updateMedicineStock(order.items): one $inc per item
CreateOrderStock(t) ==
  /\ calls[t].op = "createOrder" /\ calls[t].pc = "stock"
  /\ LET c == calls[t]
         its == validatedItems(c.items)
     IN /\ stock' = updateMedicineStock(stock, its[c.idx])
        /\ calls' = [calls EXCEPT ![t] =
             IF c.idx < Len(its) THEN [c EXCEPT !.idx = c.idx + 1]
             ELSE [c EXCEPT !.pc = IF c.st = "pending_approval" THEN "timer" ELSE "timeline"]]
  /\ UNCHANGED <<orders, rx, jobs, now, adj, nCalls, fired, boots>>

\* orderSchema.methods.startPharmacyApprovalTimer
startPharmacyApprovalTimer(order) ==
  [order EXCEPT !.pharmacyApprovalEnd = now + ApprovalWindowMinutes]

CreateOrderTimer(t) ==
  /\ calls[t].op = "createOrder" /\ calls[t].pc = "timer"
  /\ orders' = [orders EXCEPT ![calls[t].o] = startPharmacyApprovalTimer(@)]
  /\ calls' = [calls EXCEPT ![t] = [@ EXCEPT !.pc = "timeline"]]
  /\ UNCHANGED <<stock, rx, jobs, now, adj, nCalls, fired, boots>>

\* order.addTimelineEvent(order.status, 'Order created'), then the response
CreateOrderTimeline(t) ==
  /\ calls[t].op = "createOrder" /\ calls[t].pc = "timeline"
  /\ orders' = [orders EXCEPT ![calls[t].o] = addTimelineEvent(@, calls[t].st, "Order created")]
  /\ calls' = [calls EXCEPT ![t] = [@ EXCEPT !.pc = "done", !.res = "ok"]]
  /\ UNCHANGED <<stock, rx, jobs, now, adj, nCalls, fired, boots>>

\* ----------------------------------------------------------- confirmOrder
\* orderSchema.virtual('customerConfirmationTimeRemaining'): Math.max(0, end - now),
\* and 0 when no end is set
customerConfirmationTimeRemaining(order) ==
  IF order.customerConfirmationEnd # NoDate
  THEN (IF order.customerConfirmationEnd - now > 0 THEN order.customerConfirmationEnd - now ELSE 0)
  ELSE 0

\* orderSchema.virtual('pharmacyApprovalTimeRemaining')
pharmacyApprovalTimeRemaining(order) ==
  IF order.pharmacyApprovalEnd # NoDate
  THEN (IF order.pharmacyApprovalEnd - now > 0 THEN order.pharmacyApprovalEnd - now ELSE 0)
  ELSE 0

\* confirmOrder up to its first write: Order.findOne({status: 'approved'}), then
\* the confirmation window is checked against the clock
StartConfirmOrder(t, o) ==
  /\ CanStart(t)
  /\ Exists(o)
  /\ Len(orders[o].timeline) < MaxTimeline
  /\ calls' = [calls EXCEPT ![t] =
       IF orders[o].status # "approved"
       THEN [Idle EXCEPT !.op = "confirmOrder", !.pc = "done", !.o = o,
                         !.rd = orders[o].status, !.res = "notFound"]
       ELSE [Idle EXCEPT !.op = "confirmOrder", !.o = o, !.rd = "approved",
                         !.seen = stock[orders[o].items[1].medicine],
                         !.q = orders[o].customerConfirmationEnd,
                         !.pc = IF customerConfirmationTimeRemaining(orders[o]) <= 0
                                THEN "expire" ELSE "save",
                         !.st = IF customerConfirmationTimeRemaining(orders[o]) <= 0
                                THEN "cancelled" ELSE "processing"]]
  /\ UNCHANGED <<stock, orders, rx, jobs, now, adj, fired, boots>>

ConfirmExpire_mut(t) ==
  /\ calls[t].op = "confirmOrder" /\ calls[t].pc = "expire"
  /\ calls' = [calls EXCEPT ![t] = [@ EXCEPT !.pc = "done", !.res = "expired"]]
  /\ UNCHANGED <<stock, orders, rx, jobs, now, adj, nCalls, fired, boots>>

\* window closed: order.status = 'cancelled'; save; 'Order confirmation time expired'
ConfirmExpire(t) ==
  /\ calls[t].op = "confirmOrder" /\ calls[t].pc = "expire"
  /\ orders' = [orders EXCEPT ![calls[t].o].status = "cancelled"]
  /\ calls' = [calls EXCEPT ![t] = [@ EXCEPT !.pc = "done", !.res = "expired"]]
  /\ UNCHANGED <<stock, rx, jobs, now, adj, nCalls, fired, boots>>

\* order.status = 'processing'; addTimelineEvent saves the status with the event
ConfirmSave(t) ==
  /\ calls[t].op = "confirmOrder" /\ calls[t].pc = "save"
  /\ orders' = [orders EXCEPT ![calls[t].o] =
       addTimelineEvent([@ EXCEPT !.status = "processing"],
                        "processing", "Order confirmed by customer")]
  /\ calls' = [calls EXCEPT ![t] = [@ EXCEPT !.pc = "stock", !.idx = 1]]
  /\ UNCHANGED <<stock, rx, jobs, now, adj, nCalls, fired, boots>>

\* updateMedicineStock(order.items): one $inc per item, then the response
ConfirmStock(t) ==
  /\ calls[t].op = "confirmOrder" /\ calls[t].pc = "stock"
  /\ LET c == calls[t]
         its == orders[c.o].items
     IN /\ stock' = updateMedicineStock(stock, its[c.idx])
        /\ calls' = [calls EXCEPT ![t] =
             IF c.idx < Len(its) THEN [c EXCEPT !.idx = c.idx + 1]
             ELSE [c EXCEPT !.pc = "done", !.res = "ok"]]
  /\ UNCHANGED <<orders, rx, jobs, now, adj, nCalls, fired, boots>>

\* orderSchema.methods.startCustomerConfirmationTimer.  No handler calls it; the
\* model runs it on an approved order, the state it is written for.
startCustomerConfirmationTimer(order) ==
  [order EXCEPT !.customerConfirmationEnd = now + ConfirmationWindowMinutes]

StartCustomerConfirmationTimer(o) ==
  /\ orders[o].status = "approved"
  /\ orders[o].customerConfirmationEnd # now + ConfirmationWindowMinutes
  /\ orders' = [orders EXCEPT ![o] = startCustomerConfirmationTimer(@)]
  /\ UNCHANGED <<stock, rx, jobs, now, calls, adj, nCalls, fired, boots>>

\* ------------------------------------------------------------ cancelOrder
cancellableStatuses_mut == {"pending_approval", "approved", "processing", "cancelled"}

cancellableStatuses == {"pending_approval", "approved", "processing"}

\* cancelOrder line 725 reads order.status after line 720 has assigned
\* 'cancelled' to it: the status the restore test sees
statusAtRestoreCheck(readStatus) == "cancelled"

\* cancelOrder up to its first write: findById, then the status check
StartCancelOrder(t, o) ==
  /\ CanStart(t)
  /\ Len(orders[o].timeline) < MaxTimeline
  /\ Exists(o)
  /\ calls' = [calls EXCEPT ![t] =
       IF orders[o].status \notin cancellableStatuses
       THEN [Idle EXCEPT !.op = "cancelOrder", !.pc = "done", !.o = o,
                         !.rd = orders[o].status, !.res = "badRequest"]
       ELSE [Idle EXCEPT !.op = "cancelOrder", !.pc = "save", !.o = o,
                         !.rd = orders[o].status, !.st = "cancelled"]]
  /\ UNCHANGED <<stock, orders, rx, jobs, now, adj, fired, boots>>

\* order.status = 'cancelled'; addTimelineEvent('cancelled', reason) saves both
CancelSave(t) ==
  /\ calls[t].op = "cancelOrder" /\ calls[t].pc = "save"
  /\ orders' = [orders EXCEPT ![calls[t].o] =
       addTimelineEvent([@ EXCEPT !.status = "cancelled"], "cancelled", "reason")]
  /\ calls' = [calls EXCEPT ![t] = [@ EXCEPT !.pc = "final"]]
  /\ UNCHANGED <<stock, rx, jobs, now, adj, nCalls, fired, boots>>

RECURSIVE restoreAll(_, _)
restoreAll(stk, items) ==
  IF items = <<>> THEN stk ELSE restoreAll(restoreMedicineStock(stk, Head(items)), Tail(items))

RECURSIVE SelectedQuantity(_)
SelectedQuantity(items) ==
  IF items = <<>> THEN 0
  ELSE (IF Head(items).selected THEN Head(items).quantity ELSE 0) + SelectedQuantity(Tail(items))

\* if (order.status === 'processing') restoreMedicineStock(order.items); save; response
CancelFinal(t) ==
  /\ calls[t].op = "cancelOrder" /\ calls[t].pc = "final"
  /\ LET c == calls[t]
         restores == statusAtRestoreCheck(c.rd) = "processing"
     IN /\ stock' = IF restores THEN restoreAll(stock, orders[c.o].items) ELSE stock
        /\ calls' = [calls EXCEPT ![t] =
             [c EXCEPT !.pc = "done", !.res = "ok",
                       !.n = IF restores THEN SelectedQuantity(orders[c.o].items) ELSE 0]]
  /\ UNCHANGED <<orders, rx, jobs, now, adj, nCalls, fired, boots>>

\* ------------------------------------------------------ updateOrderStatus
\* pharmacyController.updateOrderStatus: validTransitions
validTransitions(from) ==
  CASE from = "pending_approval" -> {"approved", "rejected"}
    [] from = "approved" -> {"processing", "cancelled"}
    [] from = "processing" -> {"ready_for_delivery", "cancelled"}
    [] from = "ready_for_delivery" -> {"out_for_delivery", "cancelled"}
    [] from = "out_for_delivery" -> {"delivered", "cancelled"}
    [] OTHER -> {}

StatusInputs ==
  {"approved", "rejected", "processing", "ready_for_delivery", "out_for_delivery",
   "delivered", "cancelled"}

StartUpdateOrderStatus(t, o, status) ==
  /\ CanStart(t)
  /\ Len(orders[o].timeline) < MaxTimeline
  /\ Exists(o)
  /\ calls' = [calls EXCEPT ![t] =
       IF status \notin validTransitions(orders[o].status)
       THEN [Idle EXCEPT !.op = "updateOrderStatus", !.pc = "done", !.o = o,
                         !.rd = orders[o].status, !.st = status, !.res = "badRequest"]
       ELSE [Idle EXCEPT !.op = "updateOrderStatus", !.pc = "save", !.o = o,
                         !.rd = orders[o].status, !.st = status]]
  /\ UNCHANGED <<stock, orders, rx, jobs, now, adj, fired, boots>>

\* order.status = status; addTimelineEvent(status, note) saves both; response
UpdateOrderStatusSave(t) ==
  /\ calls[t].op = "updateOrderStatus" /\ calls[t].pc = "save"
  /\ orders' = [orders EXCEPT ![calls[t].o] =
       addTimelineEvent([@ EXCEPT !.status = calls[t].st], calls[t].st, "note")]
  /\ calls' = [calls EXCEPT ![t] = [@ EXCEPT !.pc = "done", !.res = "ok"]]
  /\ UNCHANGED <<stock, rx, jobs, now, adj, nCalls, fired, boots>>

\* ------------------------------------------------- updateStock (pharmacy)
\* medicineController.updateStock: findById, then the new stock is computed on
\* the handler's copy of the document
StartUpdateStock(t, m, operation, quantity) ==
  /\ CanStart(t)
  /\ calls' = [calls EXCEPT ![t] =
       IF operation = "add"
       THEN [Idle EXCEPT !.op = "updateStock", !.pc = "save", !.m = m,
                         !.q = stock[m] + quantity, !.n = quantity]
       ELSE IF operation = "subtract"
       THEN (IF stock[m] < quantity
             THEN [Idle EXCEPT !.op = "updateStock", !.pc = "done", !.m = m,
                               !.res = "badRequest"]
             ELSE [Idle EXCEPT !.op = "updateStock", !.pc = "save", !.m = m,
                               !.q = stock[m] - quantity, !.n = 0 - quantity])
       ELSE [Idle EXCEPT !.op = "updateStock", !.pc = "done", !.m = m, !.res = "badRequest"]]
  /\ UNCHANGED <<stock, orders, rx, jobs, now, adj, fired, boots>>

\* medicine.save(): the stock computed on the copy is written
UpdateStockSave(t) ==
  /\ calls[t].op = "updateStock" /\ calls[t].pc = "save"
  /\ stock' = [stock EXCEPT ![calls[t].m] = calls[t].q]
  /\ adj' = [adj EXCEPT ![calls[t].m] = @ + calls[t].n]
  /\ calls' = [calls EXCEPT ![t] = [@ EXCEPT !.pc = "done", !.res = "ok"]]
  /\ UNCHANGED <<orders, rx, jobs, now, nCalls, fired, boots>>

\* ------------------------------------------------------ verifyPrescription
\* prescriptionController.verifyPrescription up to prescription.save()
StartVerifyPrescription(t, p, status) ==
  /\ CanStart(t)
  /\ calls' = [calls EXCEPT ![t] =
       [Idle EXCEPT !.op = "verifyPrescription", !.pc = "save", !.p = p, !.st = status,
                    !.rd = rx[p].status, !.o = rx[p].order]]
  /\ UNCHANGED <<stock, orders, rx, jobs, now, adj, fired, boots>>

\* history.push({action: verified | rejected}); prescription.save(), then
\* Order.findById(prescription.order)
VerifySave(t) ==
  /\ calls[t].op = "verifyPrescription" /\ calls[t].pc = "save"
  /\ rx' = [rx EXCEPT ![calls[t].p].status = calls[t].st, ![calls[t].p].history = @ + 1]
  /\ calls' = [calls EXCEPT ![t] =
       IF calls[t].st = "verified" /\ calls[t].o # 0 /\ Exists(calls[t].o)
       THEN [@ EXCEPT !.pc = "order"]
       ELSE [@ EXCEPT !.pc = "done", !.res = "ok"]]
  /\ UNCHANGED <<stock, orders, jobs, now, adj, nCalls, fired, boots>>

\* order.status = 'approved'; order.save(); response
VerifyOrder(t) ==
  /\ calls[t].op = "verifyPrescription" /\ calls[t].pc = "order"
  /\ orders' = [orders EXCEPT ![calls[t].o].status = "approved"]
  /\ calls' = [calls EXCEPT ![t] = [@ EXCEPT !.pc = "done", !.res = "ok"]]
  /\ UNCHANGED <<stock, rx, jobs, now, adj, nCalls, fired, boots>>

\* -------------------------------------------------------------- Scheduler
\* Scheduler.scheduleOrderTimeout: cancel the job under the id, arm a new one
\* at order.approvalTimers.pharmacyApprovalEnd
scheduleOrderTimeout(order) ==
  [has |-> TRUE, armed |-> TRUE, fireAt |-> order.pharmacyApprovalEnd]

\* Scheduler.restoreOrderTimers: the orders whose timer is restored
restorable(order) ==
  /\ order.status \in {"pending_approval", "approved"}
  /\ order.pharmacyApprovalEnd # NoDate
  /\ order.pharmacyApprovalEnd > now

restoreOrderTimers ==
  [o \in OrderIds |-> IF restorable(orders[o]) THEN scheduleOrderTimeout(orders[o]) ELSE NoJob]

\* The process stops with no request in flight and starts again: the jobs of
\* the old process are gone and the Scheduler constructor restores the timers
Restart ==
  /\ boots < MaxBoots
  /\ \A t \in Threads : calls[t] = Idle
  /\ boots' = boots + 1
  /\ jobs' = restoreOrderTimers
  /\ UNCHANGED <<stock, orders, rx, now, calls, adj, nCalls, fired>>

\* The job of an order fires: the callback runs up to Order.findById
FireJob(t, o) ==
  /\ FreeWorker(t)
  /\ jobs[o].armed /\ jobs[o].fireAt <= now
  /\ jobs' = [jobs EXCEPT ![o].armed = FALSE]
  /\ fired' = [fired EXCEPT ![o] = @ + 1]
  /\ calls' = [calls EXCEPT ![t] =
       [Idle EXCEPT !.op = "orderTimeout", !.o = o, !.rd = orders[o].status,
                    !.pc = IF orders[o].status = "pending_approval" THEN "save" ELSE "finally"]]
  /\ UNCHANGED <<stock, orders, rx, now, adj, nCalls, boots>>

\* updatedOrder.status = 'cancelled'; save
TimeoutSave(t) ==
  /\ calls[t].op = "orderTimeout" /\ calls[t].pc = "save"
  /\ orders' = [orders EXCEPT ![calls[t].o].status = "cancelled"]
  /\ calls' = [calls EXCEPT ![t] = [@ EXCEPT !.pc = "finally"]]
  /\ UNCHANGED <<stock, rx, jobs, now, adj, nCalls, fired, boots>>

\* finally { this.jobs.delete(jobId) }
TimeoutFinally(t) ==
  /\ calls[t].op = "orderTimeout" /\ calls[t].pc = "finally"
  /\ jobs' = [jobs EXCEPT ![calls[t].o].has = FALSE]
  /\ calls' = [calls EXCEPT ![t] = Idle]
  /\ UNCHANGED <<stock, orders, rx, now, adj, nCalls, fired, boots>>

\* ------------------------------------------------------------- the rest
\* The response has been sent; the worker takes the next request
Return(t) ==
  /\ calls[t].pc = "done"
  /\ calls' = [calls EXCEPT ![t] = Idle]
  /\ UNCHANGED <<stock, orders, rx, jobs, now, adj, nCalls, fired, boots>>

Tick ==
  /\ now + TickMinutes <= MaxTime
  /\ now' = now + TickMinutes
  /\ UNCHANGED <<stock, orders, rx, jobs, calls, adj, nCalls, fired, boots>>

Next ==
  \/ \E t \in Threads, items \in ItemInputs, hasPrescription \in BOOLEAN :
       StartCreateOrder(t, items, hasPrescription)
  \/ \E t \in Threads : CreateOrderCreate(t)
  \/ \E t \in Threads : CreateOrderStock(t)
  \/ \E t \in Threads : CreateOrderTimer(t)
  \/ \E t \in Threads : CreateOrderTimeline(t)
  \/ \E t \in Threads, o \in OrderIds : StartConfirmOrder(t, o)
  \/ \E t \in Threads : ConfirmExpire(t)
  \/ \E t \in Threads : ConfirmSave(t)
  \/ \E t \in Threads : ConfirmStock(t)
  \/ \E o \in OrderIds : StartCustomerConfirmationTimer(o)
  \/ \E t \in Threads, o \in OrderIds : StartCancelOrder(t, o)
  \/ \E t \in Threads : CancelSave(t)
  \/ \E t \in Threads : CancelFinal(t)
  \/ \E t \in Threads, o \in OrderIds, status \in StatusInputs : StartUpdateOrderStatus(t, o, status)
  \/ \E t \in Threads : UpdateOrderStatusSave(t)
  \/ \E t \in Threads, m \in Medicines, operation \in {"add", "subtract"} :
       StartUpdateStock(t, m, operation, 1)
  \/ \E t \in Threads : UpdateStockSave(t)
  \/ \E t \in Threads, status \in {"verified", "rejected"} :
       StartVerifyPrescription(t, 1, status)
  \/ \E t \in Threads : VerifySave(t)
  \/ \E t \in Threads : VerifyOrder(t)
  \/ \E t \in Threads : Return(t)

Spec == Init /\ [][Next]_vars

\* The deadline side of the lifecycle: checkout, the pharmacy's and the
\* customer's answers, the clock, the Scheduler's jobs and the restart of
\* the process
NextTimer ==
  \/ \E t \in Threads, hasPrescription \in BOOLEAN :
       StartCreateOrder(t, << [medicine |-> "m1", quantity |-> 1] >>, hasPrescription)
  \/ \E t \in Threads : CreateOrderCreate(t)
  \/ \E t \in Threads : CreateOrderStock(t)
  \/ \E t \in Threads : CreateOrderTimer(t)
  \/ \E t \in Threads : CreateOrderTimeline(t)
  \/ \E t \in Threads, o \in OrderIds, status \in {"approved", "rejected", "cancelled"} :
       StartUpdateOrderStatus(t, o, status)
  \/ \E t \in Threads : UpdateOrderStatusSave(t)
  \/ \E t \in Threads, o \in OrderIds : StartCancelOrder(t, o)
  \/ \E t \in Threads : CancelSave(t)
  \/ \E t \in Threads : CancelFinal(t)
  \/ \E t \in Threads, o \in OrderIds : FireJob(t, o)
  \/ \E t \in Threads : TimeoutSave(t)
  \/ \E t \in Threads : TimeoutFinally(t)
  \/ \E t \in Threads : Return(t)
  \/ Restart
  \/ Tick

SpecTimer == Init /\ [][NextTimer]_vars

\* The customer's side of the lifecycle: checkout, the confirmation window,
\* confirm and cancel, and the clock
NextConfirm ==
  \/ \E t \in Threads, items \in ItemInputs, hasPrescription \in BOOLEAN :
       StartCreateOrder(t, items, hasPrescription)
  \/ \E t \in Threads : CreateOrderCreate(t)
  \/ \E t \in Threads : CreateOrderStock(t)
  \/ \E t \in Threads : CreateOrderTimer(t)
  \/ \E t \in Threads : CreateOrderTimeline(t)
  \/ \E t \in Threads, o \in OrderIds : StartConfirmOrder(t, o)
  \/ \E t \in Threads : ConfirmExpire(t)
  \/ \E t \in Threads : ConfirmSave(t)
  \/ \E t \in Threads : ConfirmStock(t)
  \/ \E o \in OrderIds : StartCustomerConfirmationTimer(o)
  \/ \E t \in Threads, o \in OrderIds : StartCancelOrder(t, o)
  \/ \E t \in Threads : CancelSave(t)
  \/ \E t \in Threads : CancelFinal(t)
  \/ \E t \in Threads : Return(t)
  \/ Tick

SpecConfirm == Init /\ [][NextConfirm]_vars

\* ------------------------------------------------------------------ cart
\* orderSchema.methods.calculateAmounts, the sum over the selected items of
\* discountedPrice * quantity, items without a discountedPrice left out
RECURSIVE SumSelectedTotal(_)
SumSelectedTotal(items) ==
  IF items = <<>> THEN 0
  ELSE (IF Head(items).selected THEN Head(items).price * Head(items).quantity ELSE 0)
       + SumSelectedTotal(Tail(items))

RECURSIVE SumSelectedDiscounted(_)
SumSelectedDiscounted(items) ==
  IF items = <<>> THEN 0
  ELSE (IF Head(items).selected /\ Head(items).discountedPrice # 0
        THEN Head(items).discountedPrice * Head(items).quantity ELSE 0)
       + SumSelectedDiscounted(Tail(items))

calculateAmounts_mut(order) ==
  LET totalAmount == SumSelectedTotal(order.items)
      discountedAmount == SumSelectedDiscounted(order.items)
  IN [order EXCEPT
        !.totalAmount = totalAmount,
        !.discountedAmount = IF discountedAmount # 0 THEN discountedAmount ELSE totalAmount,
        !.finalAmount = totalAmount + order.deliveryCharge]

\* orderSchema.methods.calculateAmounts
calculateAmounts(order) ==
  LET totalAmount == SumSelectedTotal(order.items)
      discountedAmount == SumSelectedDiscounted(order.items)
      saved == IF discountedAmount # 0 THEN discountedAmount ELSE totalAmount
  IN [order EXCEPT
        !.totalAmount = totalAmount,
        !.discountedAmount = saved,
        !.finalAmount = saved + order.deliveryCharge]

\* The customer's cart: Order.findOne({customer, status: 'cart'})
IsCart(o) == orders[o].status = "cart" /\ \A k \in OrderIds : k < o => orders[k].status # "cart"

\* addToCart on an existing cart: the medicine is active with stock >= quantity;
\* the item of that medicine gets the quantity added, or a new item is pushed
\* with the catalog prices; then calculateAmounts.  (With no cart in the store
\* Order.create is refused by the schema's required paths and nothing is stored.)
AddToCart(o, m, quantity) ==
  /\ IsCart(o)
  /\ stock[m] >= quantity
  /\ LET its == orders[o].items
         at == {i \in 1..Len(its) : its[i].medicine = m}
         existing == CHOOSE i \in at : \A j \in at : i <= j
         items2 == IF at # {}
                   THEN [its EXCEPT ![existing].quantity = @ + quantity]
                   ELSE Append(its, [medicine |-> m, quantity |-> quantity, price |-> Price[m],
                                     discountedPrice |-> DiscountedPrice[m], selected |-> TRUE])
     IN /\ \A i \in 1..Len(items2) : items2[i].quantity <= MaxCartQty
        /\ orders' = [orders EXCEPT ![o] = calculateAmounts([orders[o] EXCEPT !.items = items2])]
  /\ UNCHANGED <<stock, rx, jobs, now, calls, adj, nCalls, fired, boots>>

\* updateCart, items.forEach: the item with the given id, when there is one, gets
\* the selected flag and, when a quantity is given (0 = none given), the quantity
RECURSIVE applyCartUpdates(_, _)
applyCartUpdates(items, updates) ==
  IF updates = <<>> THEN items
  ELSE LET u == Head(updates)
           items2 == IF u.id \in 1..Len(items)
                     THEN [items EXCEPT ![u.id] =
                             [@ EXCEPT !.selected = u.selected,
                                       !.quantity = IF u.quantity # 0 THEN u.quantity ELSE @]]
                     ELSE items
       IN applyCartUpdates(items2, Tail(updates))

CartUpdate == [id : 1..2, selected : BOOLEAN, quantity : 0..2]
CartUpdateInputs == { <<u>> : u \in CartUpdate } \cup
                    { <<u, v>> : u \in {c \in CartUpdate : c.id = 1 /\ c.quantity = 0},
                                 v \in {c \in CartUpdate : c.id = 2 /\ c.quantity = 0} }

\* updateCart: Order.findOne({_id, status: 'cart'}), the updates, calculateAmounts
UpdateCart(o, updates) ==
  /\ orders[o].status = "cart"
  /\ orders' = [orders EXCEPT ![o] =
       calculateAmounts([orders[o] EXCEPT !.items = applyCartUpdates(orders[o].items, updates)])]
  /\ orders' # orders
  /\ UNCHANGED <<stock, rx, jobs, now, calls, adj, nCalls, fired, boots>>

\* The store holds the customer's cart: an order document as createOrder writes
\* it, moved to status 'cart' (as the order tests set it up), or no cart
InitCart ==
  /\ stock = InitStock
  /\ \E items \in ItemInputs :
       orders = [o \in OrderIds |->
                   IF o = 1 THEN [newOrder(items, FALSE) EXCEPT !.status = "cart"] ELSE NoOrder]
  /\ rx = RxStore
  /\ jobs = [o \in OrderIds |-> NoJob]
  /\ now = 0
  /\ calls = [t \in Threads |-> Idle]
  /\ adj = [m \in Medicines |-> 0]
  /\ nCalls = 0
  /\ fired = [o \in OrderIds |-> 0]
  /\ boots = 1

NextCart ==
  \/ \E o \in OrderIds, m \in Medicines, quantity \in 1..2 : AddToCart(o, m, quantity)
  \/ \E o \in OrderIds, updates \in CartUpdateInputs : UpdateCart(o, updates)
  \/ \E t \in Threads, items \in ItemInputs, hasPrescription \in BOOLEAN :
       StartCreateOrder(t, items, hasPrescription)
  \/ \E t \in Threads : CreateOrderCreate(t)
  \/ \E t \in Threads : CreateOrderStock(t)
  \/ \E t \in Threads : CreateOrderTimer(t)
  \/ \E t \in Threads : CreateOrderTimeline(t)
  \/ \E t \in Threads : Return(t)

SpecCart == InitCart /\ [][NextCart]_vars

\* ---------------------------------------------------------- prescriptions
DayMinutes == 24 * 60

\* processRefill, switch (frequency): the days added to nextRefillDate; a
\* frequency the switch has no case for adds nothing
PeriodDays(frequency) ==
  CASE frequency = "daily" -> 1
    [] frequency = "weekly" -> 7
    [] OTHER -> 0

checkRefillStatus_mut(doc) ==
  IF doc.isRecurring
  THEN doc.nextRefillDate # NoDate /\ now >= doc.nextRefillDate
  ELSE FALSE

\* prescriptionSchema.methods.checkRefillStatus
checkRefillStatus(doc) ==
  IF doc.isRecurring /\ doc.remainingRefills > 0
  THEN doc.nextRefillDate # NoDate /\ now >= doc.nextRefillDate
  ELSE FALSE

\* prescriptionSchema.methods.processRefill, on the caller's copy of the document
processRefill(doc) ==
  IF checkRefillStatus(doc)
  THEN [doc EXCEPT !.remainingRefills = @ - 1,
                   !.nextRefillDate = @ + PeriodDays(doc.frequency) * DayMinutes]
  ELSE doc

\* The caller's copy of a prescription: the document as read, with the refill
\* fields as they were at the read
LocalRx(item) ==
  [rx[item.p] EXCEPT !.remainingRefills = item.remainingRefills,
                     !.nextRefillDate = item.nextRefillDate]

\* What a handler keeps of a prescription it has read
ReadRx(p) ==
  [p |-> p, status |-> rx[p].status, remainingRefills |-> rx[p].remainingRefills,
   nextRefillDate |-> rx[p].nextRefillDate]

\* this.save() at the end of processRefill writes the two modified paths
SaveRefill(p, doc) ==
  [rx EXCEPT ![p].remainingRefills = doc.remainingRefills,
             ![p].nextRefillDate = doc.nextRefillDate]

\* The paths orderSchema requires, and the paths requestRefill hands to Order.create
OrderRequiredPaths ==
  {"customer", "pharmacy", "totalAmount", "finalAmount", "deliverySlot", "deliveryAddress"}
RefillOrderPaths == {"customer", "pharmacy", "prescription", "status"}

\* prescriptionSchema.history.action: the enum
HistoryActions == {"uploaded", "reviewed", "verified", "rejected", "resubmitted", "expired"}

\* requestRefill up to processRefill: findOne, then the eligibility test
StartRequestRefill(t, p) ==
  /\ CanStart(t)
  /\ calls' = [calls EXCEPT ![t] =
       IF ~rx[p].isRecurring \/ ~checkRefillStatus(rx[p])
       THEN [Idle EXCEPT !.op = "requestRefill", !.pc = "done", !.p = p,
                         !.items = <<ReadRx(p)>>, !.res = "badRequest"]
       ELSE [Idle EXCEPT !.op = "requestRefill", !.pc = "process", !.p = p,
                         !.items = <<ReadRx(p)>>, !.idx = 1]]
  /\ UNCHANGED <<stock, orders, rx, jobs, now, adj, fired, boots>>

\* await prescription.processRefill()
RequestRefillProcess(t) ==
  /\ calls[t].op = "requestRefill" /\ calls[t].pc = "process"
  /\ LET c == calls[t]
         doc == LocalRx(c.items[1])
         new == processRefill(doc)
     IN /\ rx' = IF new # doc THEN SaveRefill(c.p, new) ELSE rx
        /\ calls' = [calls EXCEPT ![t] =
             [c EXCEPT !.pc = "order", !.n = IF new # doc THEN 1 ELSE 0]]
  /\ UNCHANGED <<stock, orders, jobs, now, adj, nCalls, fired, boots>>

\* Order.create({customer, pharmacy, prescription, status: 'pending_approval'}):
\* the schema's required paths are validated; then history.push and save
RequestRefillOrder(t) ==
  /\ calls[t].op = "requestRefill" /\ calls[t].pc = "order"
  /\ LET c == calls[t]
         created == OrderRequiredPaths \subseteq RefillOrderPaths /\ FreeIds # {}
         saved == created /\ "refill_requested" \in HistoryActions
         o == IF created THEN CHOOSE k \in FreeIds : \A j \in FreeIds : k <= j ELSE 0
     IN /\ orders' = IF created
                     THEN [orders EXCEPT ![o] =
                             [NoOrder EXCEPT !.status = "pending_approval", !.prescription = TRUE]]
                     ELSE orders
        /\ rx' = IF saved THEN [rx EXCEPT ![c.p].history = @ + 1] ELSE rx
        /\ calls' = [calls EXCEPT ![t] =
             [c EXCEPT !.pc = "done", !.o = o, !.res = IF saved THEN "ok" ELSE "error"]]
  /\ UNCHANGED <<stock, jobs, now, adj, nCalls, fired, boots>>

\* A list of prescriptions, in the order of their ids, as a find returns them
RECURSIVE FoundFrom(_, _)
FoundFrom(S, p) ==
  IF p > MaxRx THEN <<>>
  ELSE (IF p \in S THEN <<ReadRx(p)>> ELSE <<>>) \o FoundFrom(S, p + 1)

\* checkPrescriptionRefills: Prescription.find({isRecurring, remainingRefills > 0,
\* nextRefillDate <= now})
refillablePrescriptions ==
  FoundFrom({p \in RxIds : /\ rx[p].isRecurring /\ rx[p].remainingRefills > 0
                           /\ rx[p].nextRefillDate # NoDate
                           /\ rx[p].nextRefillDate <= now}, 1)

\* The daily job runs checkPrescriptionRefills: the find
StartCheckPrescriptionRefills(t) ==
  /\ CanStart(t)
  /\ calls' = [calls EXCEPT ![t] =
       [Idle EXCEPT !.op = "checkPrescriptionRefills", !.items = refillablePrescriptions,
                    !.idx = 1,
                    !.pc = IF refillablePrescriptions = <<>> THEN "done" ELSE "process"]]
  /\ UNCHANGED <<stock, orders, rx, jobs, now, adj, fired, boots>>

\* one iteration: if (checkRefillStatus()) await processRefill(); the notification
CheckPrescriptionRefillsProcess(t) ==
  /\ calls[t].op = "checkPrescriptionRefills" /\ calls[t].pc = "process"
  /\ LET c == calls[t]
         doc == LocalRx(c.items[c.idx])
         new == processRefill(doc)
     IN /\ rx' = IF new # doc THEN SaveRefill(c.items[c.idx].p, new) ELSE rx
        /\ calls' = [calls EXCEPT ![t] =
             [c EXCEPT !.n = IF new # doc THEN c.n + 1 ELSE c.n,
                       !.idx = c.idx + 1,
                       !.pc = IF c.idx < Len(c.items) THEN "process" ELSE "done"]]
  /\ UNCHANGED <<stock, orders, jobs, now, adj, nCalls, fired, boots>>

expiredPrescriptions_mut ==
  FoundFrom({p \in RxIds : rx[p].status \notin {"expired", "verified"} /\ rx[p].validity < now}, 1)

\* schedulePrescriptionExpiryCheck: Prescription.find({status: {$ne: 'expired'},
\* validity: {$lt: now}})
expiredPrescriptions ==
  FoundFrom({p \in RxIds : rx[p].status # "expired" /\ rx[p].validity < now}, 1)

\* The daily expiry check fires: the find
StartExpiryCheck(t) ==
  /\ CanStart(t)
  /\ calls' = [calls EXCEPT ![t] =
       [Idle EXCEPT !.op = "expiryCheck", !.items = expiredPrescriptions, !.idx = 1,
                    !.seen = now,
                    !.pc = IF expiredPrescriptions = <<>> THEN "done" ELSE "save"]]
  /\ UNCHANGED <<stock, orders, rx, jobs, now, adj, fired, boots>>

\* one iteration: prescription.status = 'expired'; save; the notification
ExpiryCheckSave(t) ==
  /\ calls[t].op = "expiryCheck" /\ calls[t].pc = "save"
  /\ LET c == calls[t] IN
     /\ rx' = [rx EXCEPT ![c.items[c.idx].p].status = "expired"]
     /\ calls' = [calls EXCEPT ![t] =
          [c EXCEPT !.idx = c.idx + 1,
                    !.pc = IF c.idx < Len(c.items) THEN "save" ELSE "done"]]
  /\ UNCHANGED <<stock, orders, jobs, now, adj, nCalls, fired, boots>>

\* forwardPrescription up to forwardToPharmacy: findOne, then the status test
StartForwardPrescription(t, p, newPharmacy) ==
  /\ CanStart(t)
  /\ calls' = [calls EXCEPT ![t] =
       IF rx[p].status \notin {"rejected", "pending"}
       THEN [Idle EXCEPT !.op = "forwardPrescription", !.pc = "done", !.p = p, !.m = newPharmacy,
                         !.rd = rx[p].status, !.q = rx[p].history, !.res = "badRequest"]
       ELSE [Idle EXCEPT !.op = "forwardPrescription", !.pc = "forward", !.p = p,
                         !.m = newPharmacy, !.rd = rx[p].status, !.q = rx[p].history]]
  /\ UNCHANGED <<stock, orders, rx, jobs, now, adj, fired, boots>>

\* prescriptionSchema.methods.forwardToPharmacy: forwardedTo.push, save
ForwardToPharmacy(t) ==
  /\ calls[t].op = "forwardPrescription" /\ calls[t].pc = "forward"
  /\ rx' = [rx EXCEPT ![calls[t].p].forwardedTo = @ + 1]
  /\ calls' = [calls EXCEPT ![t] = [@ EXCEPT !.pc = "save"]]
  /\ UNCHANGED <<stock, orders, jobs, now, adj, nCalls, fired, boots>>

\* pharmacy = newPharmacy; status = 'pending'; history.push({action: 'forwarded'});
\* save, which validates the pushed entry against the enum
ForwardSave(t) ==
  /\ calls[t].op = "forwardPrescription" /\ calls[t].pc = "save"
  /\ LET c == calls[t]
         valid == "forwarded" \in HistoryActions
     IN /\ rx' = IF valid
                 THEN [rx EXCEPT ![c.p].pharmacy = c.m, ![c.p].status = "pending",
                                 ![c.p].history = @ + 1]
                 ELSE rx
        /\ calls' = [calls EXCEPT ![t] =
             [c EXCEPT !.pc = "done", !.res = IF valid THEN "ok" ELSE "error"]]
  /\ UNCHANGED <<stock, orders, jobs, now, adj, nCalls, fired, boots>>

\* A day passes
TickDay ==
  /\ now + DayMinutes <= MaxDays * DayMinutes
  /\ now' = now + DayMinutes
  /\ UNCHANGED <<stock, orders, rx, jobs, calls, adj, nCalls, fired, boots>>

RxStatusInputs == {"pending", "verified"}

\* The store holds prescriptions uploaded (pending) or verified; the first is on a daily refill with two refills left, the others on a
\* weekly refill with one left, due in a day
InitRx ==
  /\ stock = InitStock
  /\ orders = [o \in OrderIds |-> NoOrder]
  /\ \E st \in [RxIds -> RxStatusInputs] :
       rx = [p \in RxIds |->
               [RxDoc(st[p], 0) EXCEPT
                  !.validity = IF p = 1 THEN DayMinutes ELSE 0,
                  !.isRecurring = TRUE,
                  !.remainingRefills = IF p = 1 THEN 2 ELSE 1,
                  !.nextRefillDate = IF p = 1 THEN 0 ELSE DayMinutes,
                  !.frequency = IF p = 1 THEN "daily" ELSE "weekly"]]
  /\ jobs = [o \in OrderIds |-> NoJob]
  /\ now = 0
  /\ calls = [t \in Threads |-> Idle]
  /\ adj = [m \in Medicines |-> 0]
  /\ nCalls = 0
  /\ fired = [o \in OrderIds |-> 0]
  /\ boots = 1

NextRx ==
  \/ \E t \in Threads, p \in RxIds : StartRequestRefill(t, p)
  \/ \E t \in Threads : RequestRefillProcess(t)
  \/ \E t \in Threads : RequestRefillOrder(t)
  \/ \E t \in Threads : StartCheckPrescriptionRefills(t)
  \/ \E t \in Threads : CheckPrescriptionRefillsProcess(t)
  \/ \E t \in Threads : StartExpiryCheck(t)
  \/ \E t \in Threads : ExpiryCheckSave(t)
  \/ \E t \in Threads, p \in RxIds, status \in {"verified", "rejected"} :
       StartVerifyPrescription(t, p, status)
  \/ \E t \in Threads : VerifySave(t)
  \/ \E t \in Threads, p \in RxIds : StartForwardPrescription(t, p, "ph2")
  \/ \E t \in Threads : ForwardToPharmacy(t)
  \/ \E t \in Threads : ForwardSave(t)
  \/ \E t \in Threads : Return(t)
  \/ TickDay

SpecRx == InitRx /\ [][NextRx]_vars

\* ======================================================== the claims
OtherIdle(t) == \A u \in Threads : u # t => calls[u] = Idle
OnlyOrder(o) == \A k \in OrderIds : k # o => ~Exists(k)

\* The order has been confirmed by the customer and no confirm is in flight on
\* it: confirmOrder has taken every selected item's quantity from the stock
ReservedAtConfirm(o) ==
  /\ \E i \in 1..Len(orders[o].timeline) :
       orders[o].timeline[i].note = "Order confirmed by customer"
  /\ \A u \in Threads : ~(calls[u].op = "confirmOrder" /\ calls[u].o = o /\ calls[u].pc # "done")

\* C1: every medicine's stock is at least 0 in every reachable state.
C1_StockNeverNegative == \A m \in Medicines : stock[m] >= 0

\* Two confirms in flight together on two different approved orders, each order
\* one item of quantity 1 of the same medicine, each having found the stock at 1
\* and its confirmation window open
RaceForLastUnit(t, u) ==
  /\ t # u
  /\ calls[t].op = "confirmOrder" /\ calls[u].op = "confirmOrder"
  /\ calls[t].o # calls[u].o
  /\ calls[t].st = "processing" /\ calls[u].st = "processing"
  /\ calls[t].seen = 1 /\ calls[u].seen = 1
  /\ Len(orders[calls[t].o].items) = 1 /\ Len(orders[calls[u].o].items) = 1
  /\ orders[calls[t].o].items[1].quantity = 1 /\ orders[calls[u].o].items[1].quantity = 1
  /\ orders[calls[t].o].items[1].medicine = orders[calls[u].o].items[1].medicine

\* C2: of two concurrent confirms racing for the last unit of a medicine, when
\* both have answered exactly one has succeeded and its order is processing; the
\* other was refused for insufficient stock and its order is still approved.
C2_OneConfirmWinsLastUnit ==
  \A t, u \in Threads :
    (RaceForLastUnit(t, u) /\ calls[t].pc = "done" /\ calls[u].pc = "done")
      => \/ /\ calls[t].res = "ok" /\ orders[calls[t].o].status = "processing"
            /\ calls[u].res = "insufficientStock" /\ orders[calls[u].o].status = "approved"
         \/ /\ calls[u].res = "ok" /\ orders[calls[u].o].status = "processing"
            /\ calls[t].res = "insufficientStock" /\ orders[calls[t].o].status = "approved"

\* C3: a successful cancel (the customer's, or the pharmacy's status update to
\* cancelled) of an order that was processing or later and had reserved its
\* stock at confirm puts back the selected items' quantities; a cancel from
\* pending_approval or approved puts back nothing.
C3_CancelReleasesWhatConfirmReserved ==
  \A t \in Threads :
    ( /\ calls[t].pc = "done" /\ calls[t].res = "ok"
      /\ \/ calls[t].op = "cancelOrder"
         \/ calls[t].op = "updateOrderStatus" /\ calls[t].st = "cancelled" )
      => /\ (calls[t].rd \in {"processing", "ready_for_delivery", "out_for_delivery"}
             /\ ReservedAtConfirm(calls[t].o))
              => calls[t].n = SelectedQuantity(orders[calls[t].o].items)
         /\ calls[t].rd \in {"pending_approval", "approved"} => calls[t].n = 0

\* C4 as claimed: a cancel of an order that is already cancelled succeeds and
\* releases no stock.
C4_CancelOfCancelledSucceeds ==
  \A t \in Threads :
    (calls[t].op = "cancelOrder" /\ calls[t].pc = "done" /\ calls[t].rd = "cancelled")
      => (calls[t].res = "ok" /\ calls[t].n = 0)

\* C4 as amended: a cancel of an order that is already cancelled is refused with
\* a bad-request error in its first step; the step changes no order and no stock.
C4_CancelOfCancelledRefused ==
  [][ \A t \in Threads :
        ( /\ calls[t] = Idle /\ calls'[t].op = "cancelOrder"
          /\ orders[calls'[t].o].status = "cancelled" )
          => ( /\ calls'[t].pc = "done" /\ calls'[t].res = "badRequest" /\ calls'[t].n = 0
               /\ orders' = orders /\ stock' = stock ) ]_vars

\* A cancel of a cancelled order has been answered with the bad-request error
C4_Witness ==
  \E t \in Threads :
    /\ calls[t].op = "cancelOrder" /\ calls[t].pc = "done"
    /\ calls[t].rd = "cancelled" /\ calls[t].res = "badRequest"
    /\ orders[calls[t].o].status = "cancelled"

\* The order transition table; an order is created by checkout into
\* pending_approval or approved
TransitionTable ==
  { <<"none", "pending_approval">>, <<"none", "approved">>,
    <<"cart", "pending_approval">>, <<"cart", "approved">>,
    <<"pending_approval", "approved">>, <<"pending_approval", "rejected">>,
    <<"pending_approval", "cancelled">>,
    <<"approved", "processing">>, <<"approved", "cancelled">>,
    <<"processing", "ready_for_delivery">>, <<"processing", "cancelled">>,
    <<"ready_for_delivery", "out_for_delivery">>, <<"ready_for_delivery", "cancelled">>,
    <<"out_for_delivery", "delivered">>, <<"out_for_delivery", "cancelled">> }

\* C5: every order in the store, cart or checked out, has
\* finalAmount = discountedAmount + deliveryCharge.
C5_FinalAmountIsDiscountedPlusDelivery ==
  \A o \in OrderIds :
    Exists(o) => orders[o].finalAmount = orders[o].discountedAmount + orders[o].deliveryCharge

\* A cart recomputed by updateCart (an item is unselected) that holds a
\* discounted item and pays a delivery charge, beside a checked-out order
C5_Witness ==
  \E o, k \in OrderIds :
    /\ orders[o].status = "cart" /\ orders[o].deliveryCharge > 0
    /\ \E i \in 1..Len(orders[o].items) : ~orders[o].items[i].selected
    /\ \E i \in 1..Len(orders[o].items) :
         orders[o].items[i].selected /\ orders[o].items[i].discountedPrice # 0
    /\ orders[o].finalAmount # orders[o].totalAmount + orders[o].deliveryCharge
    /\ orders[k].status \in {"approved", "pending_approval"}

\* C6: every change of an order's status is an edge of the transition table.
C6_OnlyTableTransitions ==
  [][ \A o \in OrderIds :
        orders'[o].status # orders[o].status
          => <<orders[o].status, orders'[o].status>> \in TransitionTable ]_vars

\* C7: once an order is delivered or cancelled its status never changes again.
C7_TerminalStatusIsFinal ==
  [][ \A o \in OrderIds :
        orders[o].status \in {"delivered", "cancelled"}
          => orders'[o].status = orders[o].status ]_vars

\* C8: the only order, one item of quantity q, no prescription, touched by
\* nothing but its checkout and one confirm: the confirm has succeeded, the
\* order is processing and the stock is the initial stock less q.
C8_CheckoutThenConfirm ==
  \A t \in Threads :
    LET o == calls[t].o IN
    ( /\ calls[t].op = "confirmOrder" /\ calls[t].pc = "done" /\ calls[t].rd = "approved"
      /\ OtherIdle(t) /\ OnlyOrder(o)
      /\ ~orders[o].prescription /\ Len(orders[o].items) = 1
      /\ rx = RxStore /\ adj = [m \in Medicines |-> 0]
      /\ \A i \in 1..Len(orders[o].timeline) :
           orders[o].timeline[i].note \in {"Order created", "Order confirmed by customer"} )
      => /\ calls[t].res = "ok"
         /\ orders[o].status = "processing"
         /\ stock[orders[o].items[1].medicine]
              = InitStock[orders[o].items[1].medicine] - orders[o].items[1].quantity

\* C9: a checkout with a prescription has left the order in pending_approval
\* with a deadline ten minutes after the checkout and, while the deadline is
\* ahead and the order still pending, a job armed at that deadline.
C9_ApprovalJobRegistered ==
  \A t \in Threads :
    LET o == calls[t].o IN
    ( /\ calls[t].op = "createOrder" /\ calls[t].pc = "done" /\ calls[t].res = "ok"
      /\ calls[t].rx /\ orders[o].status = "pending_approval" )
      => /\ orders[o].pharmacyApprovalEnd # NoDate
         /\ now < orders[o].pharmacyApprovalEnd
              => (jobs[o].armed /\ jobs[o].fireAt = orders[o].pharmacyApprovalEnd)

\* C10: when the process restarts, the timeout of every order still in
\* pending_approval whose deadline has passed fires: its callback runs in the
\* restart or its job is armed and due.
C10_OverdueJobFiresOnRecovery ==
  [][ boots' = boots + 1
        => \A o \in OrderIds :
             ( /\ orders[o].status = "pending_approval"
               /\ orders[o].pharmacyApprovalEnd # NoDate
               /\ orders[o].pharmacyApprovalEnd <= now )
               => \/ fired'[o] = fired[o] + 1
                  \/ jobs'[o].armed /\ jobs'[o].fireAt <= now' ]_vars

\* Some selected item of the order asks for more than its medicine's stock
ShortOfStock(o) ==
  \E i \in 1..Len(orders[o].items) :
    /\ orders[o].items[i].selected
    /\ orders[o].items[i].quantity > stock[orders[o].items[i].medicine]

\* C11: a confirm that finds the order approved, its window open and a selected
\* item short of stock is refused with InsufficientStock in that step, which
\* changes no stock and no order.
C11_ConfirmShortOfStockRefused ==
  [][ \A t \in Threads :
        ( /\ calls[t] = Idle /\ calls'[t].op = "confirmOrder"
          /\ orders[calls'[t].o].status = "approved"
          /\ customerConfirmationTimeRemaining(orders[calls'[t].o]) > 0
          /\ ShortOfStock(calls'[t].o) )
          => ( /\ calls'[t].pc = "done" /\ calls'[t].res = "insufficientStock"
               /\ orders' = orders /\ stock' = stock ) ]_vars

\* C12: no step of a checkout changes any medicine's stock.
C12_CheckoutLeavesStock ==
  [][ \A t \in Threads :
        (calls[t].op = "createOrder" /\ calls'[t] # calls[t]) => stock' = stock ]_vars

\* A step taken by a confirmOrder call of worker t, its return apart
ConfirmStep(t) ==
  /\ calls'[t] # calls[t] /\ calls'[t] # Idle
  /\ calls'[t].op = "confirmOrder"

RefillOps == {"requestRefill", "checkPrescriptionRefills"}

\* C14: a processRefill whose caller's copy of the prescription is current takes
\* exactly one of the remaining refills; remainingRefills never goes below 0;
\* a refill asked when none remains is refused as not eligible and changes nothing.
C14_RefillsRunOut ==
  /\ [][ \A t \in Threads :
           /\ ( /\ calls[t].op \in RefillOps /\ calls[t].pc = "process"
                /\ calls'[t] # calls[t]
                /\ LocalRx(calls[t].items[calls[t].idx]) = rx[calls[t].items[calls[t].idx].p] )
                => LET p == calls[t].items[calls[t].idx].p IN
                   /\ rx[p].remainingRefills > 0
                   /\ rx'[p].remainingRefills = rx[p].remainingRefills - 1
                   /\ \A k \in RxIds : k # p => rx'[k] = rx[k]
           /\ ( /\ calls[t] = Idle /\ calls'[t].op = "requestRefill"
                /\ rx[calls'[t].p].remainingRefills = 0 )
                => ( /\ calls'[t].pc = "done" /\ calls'[t].res = "badRequest"
                     /\ rx' = rx /\ orders' = orders ) ]_vars
  /\ [](\A p \in RxIds : rx[p].remainingRefills >= 0)

\* The first prescription's two refills are used up and a further request has
\* been refused
C14_Witness ==
  \E t \in Threads :
    /\ calls[t].op = "requestRefill" /\ calls[t].pc = "done" /\ calls[t].res = "badRequest"
    /\ calls[t].p = 1 /\ rx[1].remainingRefills = 0
    /\ calls[t].items[1].remainingRefills = 0

\* C15: a refill request, or a run of the scheduled refill check, that has
\* consumed n refills has ended well and left n orders in pending_approval
\* tied to a prescription.
C15_RefillCreatesOrder ==
  \A t \in Threads :
    (calls[t].op \in RefillOps /\ calls[t].pc = "done" /\ calls[t].n > 0)
      => /\ calls[t].res \in {"ok", ""}
         /\ Cardinality({o \in OrderIds :
               orders[o].status = "pending_approval" /\ orders[o].prescription}) >= calls[t].n

\* The prescriptions a list of read documents names
FoundIds(items) == {items[i].p : i \in 1..Len(items)}

\* C16: the expiry sweep finds exactly the prescriptions past their validity
\* that are not yet expired (none, when it has just run), and sets each of them
\* to expired, whatever its status was, touching nothing else; when it has
\* ended, every prescription that was past its validity when the sweep began,
\* and that no review has written since the start, is expired.
C16_ExpirySweep ==
  /\ [][ \A t \in Threads :
           /\ (calls[t] = Idle /\ calls'[t].op = "expiryCheck")
                => /\ FoundIds(calls'[t].items)
                        = {p \in RxIds : rx[p].validity < now /\ rx[p].status # "expired"}
                   /\ calls'[t].items = <<>> => calls'[t].pc = "done"
                   /\ rx' = rx
           /\ (calls[t].op = "expiryCheck" /\ calls[t].pc = "save" /\ calls'[t] # calls[t])
                => LET p == calls[t].items[calls[t].idx].p IN
                   rx' = [rx EXCEPT ![p].status = "expired"] ]_vars
  /\ [](\A t \in Threads :
          (calls[t].op = "expiryCheck" /\ calls[t].pc = "done")
            => \A p \in RxIds :
                 (rx[p].validity < calls[t].seen /\ rx[p].history = 0)
                   => rx[p].status = "expired")

\* A sweep has ended that found a verified prescription past its validity and
\* left it expired
C16_Witness ==
  \E t \in Threads :
    /\ calls[t].op = "expiryCheck" /\ calls[t].pc = "done"
    /\ \E i \in 1..Len(calls[t].items) :
         /\ calls[t].items[i].status = "verified"
         /\ rx[calls[t].items[i].p].validity < calls[t].seen
         /\ rx[calls[t].items[i].p].status = "expired"

\* C17: a verify request on a prescription that is neither pending nor under
\* review is refused in its first step and changes no prescription and no order.
C17_VerifyOnlyFromPending ==
  [][ \A t \in Threads :
        ( /\ calls[t] = Idle /\ calls'[t].op = "verifyPrescription"
          /\ rx[calls'[t].p].status \notin {"pending", "under_review"} )
          => ( /\ calls'[t].pc = "done" /\ calls'[t].res = "badRequest"
               /\ rx' = rx /\ orders' = orders ) ]_vars

\* C18: a forward that has answered was refused if it found the prescription
\* neither rejected nor pending; otherwise it succeeded and the prescription is
\* under the new pharmacy with one more history entry; no step changes a
\* prescription's validity.
C18_ForwardResets ==
  /\ [](\A t \in Threads :
          (calls[t].op = "forwardPrescription" /\ calls[t].pc = "done")
            => IF calls[t].rd \in {"rejected", "pending"}
               THEN /\ calls[t].res = "ok"
                    /\ rx[calls[t].p].pharmacy = calls[t].m
                    /\ rx[calls[t].p].history >= calls[t].q + 1
               ELSE calls[t].res = "badRequest")
  /\ [][\A p \in RxIds : rx'[p].validity = rx[p].validity]_vars

\* How many times the customer's confirm has been recorded on the order: each
\* record is followed by one decrement of the order's quantities
RECURSIVE ConfirmedTimes(_)
ConfirmedTimes(timeline) ==
  IF timeline = <<>> THEN 0
  ELSE (IF Head(timeline).note = "Order confirmed by customer" THEN 1 ELSE 0)
       + ConfirmedTimes(Tail(timeline))

OrderOps == {"confirmOrder", "cancelOrder", "updateOrderStatus"}

\* C19: two operations on the same order that have both succeeded did not both
\* act on the same status (the later one saw what the earlier one wrote), and
\* an order's quantities are taken from the stock by confirm at most once.
C19_SameOrderSerialized ==
  /\ \A t, u \in Threads :
       ( /\ t # u /\ calls[t].o = calls[u].o
         /\ calls[t].op \in OrderOps /\ calls[u].op \in OrderOps
         /\ calls[t].pc = "done" /\ calls[u].pc = "done"
         /\ calls[t].res = "ok" /\ calls[u].res = "ok" )
         => calls[t].rd # calls[u].rd
  /\ \A o \in OrderIds : ConfirmedTimes(orders[o].timeline) <= 1

\* C20: a step of the approval-timeout callback on an order that is not in
\* pending_approval changes no order and no stock.
C20_TimeoutAfterRaceIsNoOp ==
  [][ \A t \in Threads :
        ( /\ calls'[t] # calls[t]
          /\ \/ calls[t].op = "orderTimeout"
             \/ calls'[t].op = "orderTimeout"
          /\ orders[IF calls[t].op = "orderTimeout" THEN calls[t].o ELSE calls'[t].o].status
               # "pending_approval" )
          => (orders' = orders /\ stock' = stock) ]_vars

\* The statuses in which an order holds its quantities out of the stock
HoldingStatuses == {"processing", "ready_for_delivery", "out_for_delivery", "delivered"}

RECURSIVE SelectedQuantityOf(_, _)
SelectedQuantityOf(items, m) ==
  IF items = <<>> THEN 0
  ELSE (IF Head(items).selected /\ Head(items).medicine = m THEN Head(items).quantity ELSE 0)
       + SelectedQuantityOf(Tail(items), m)

RECURSIVE HeldUpTo(_, _)
HeldUpTo(o, m) ==
  IF o = 0 THEN 0
  ELSE (IF orders[o].status \in HoldingStatuses THEN SelectedQuantityOf(orders[o].items, m) ELSE 0)
       + HeldUpTo(o - 1, m)

Quiescent == \A t \in Threads : calls[t].pc \in {"idle", "done"}

\* C21: with no handler between two of its steps, every medicine's stock plus
\* the selected quantities of it in orders that are processing, ready for
\* delivery, out for delivery or delivered equals the initial stock plus the
\* net of the pharmacy's stock adjustments.
C21_StockLedgerBalances ==
  Quiescent =>
    \A m \in Medicines : stock[m] + HeldUpTo(MaxOrders, m) = InitStock[m] + adj[m]

\* The quantity of medicine m that the completed handlers have taken from the
\* stock by $inc: once at a checkout without prescription, once per recorded
\* confirm (cancelOrder's restore never runs)
RECURSIVE TakenUpTo(_, _)
TakenUpTo(o, m) ==
  IF o = 0 THEN 0
  ELSE ( (IF Exists(o) /\ orders[o].status # "cart" /\ ~orders[o].prescription THEN 1 ELSE 0)
         + ConfirmedTimes(orders[o].timeline) ) * SelectedQuantityOf(orders[o].items, m)
       + TakenUpTo(o - 1, m)

\* C22: with no handler between two of its steps, every medicine's stock is the
\* initial stock plus the deltas of all successful stock mutations: the
\* pharmacy's stock updates and the orders' decrements.
C22_NoLostStockUpdate ==
  Quiescent =>
    \A m \in Medicines : stock[m] = InitStock[m] + adj[m] - TakenUpTo(MaxOrders, m)

\* C23: with no handler between two of its steps, an order whose timeout job is
\* armed is in pending_approval.
C23_JobArmedOnlyWhilePending ==
  Quiescent =>
    \A o \in OrderIds : jobs[o].armed => orders[o].status = "pending_approval"

\* C24: a pharmacy request to approve that finds the order in pending_approval
\* with its approval deadline passed is refused in that step, and no step moves
\* an order from pending_approval to approved after the deadline it carries.
C24_NoApproveAfterDeadline ==
  [][ /\ \A t \in Threads :
           ( /\ calls[t].op = "idle" /\ calls'[t].op = "updateOrderStatus"
             /\ calls'[t].st = "approved" /\ calls'[t].rd = "pending_approval"
             /\ orders[calls'[t].o].pharmacyApprovalEnd # NoDate
             /\ pharmacyApprovalTimeRemaining(orders[calls'[t].o]) = 0 )
             => (calls'[t].pc = "done" /\ calls'[t].res # "ok")
      /\ \A o \in OrderIds :
           ( /\ orders[o].status = "pending_approval" /\ orders'[o].status = "approved"
             /\ orders[o].pharmacyApprovalEnd # NoDate )
             => orders[o].pharmacyApprovalEnd > now ]_vars

\* C25: every step that changes the status of a stored order appends, in that
\* step, one timeline entry carrying the new status; and no step removes or
\* changes a timeline entry.
C25_TimelineFollowsStatus ==
  [][ \A o \in OrderIds :
        /\ Len(orders'[o].timeline) >= Len(orders[o].timeline)
        /\ SubSeq(orders'[o].timeline, 1, Len(orders[o].timeline)) = orders[o].timeline
        /\ (Exists(o) /\ orders'[o].status # orders[o].status) =>
             /\ Len(orders'[o].timeline) = Len(orders[o].timeline) + 1
             /\ orders'[o].timeline[Len(orders'[o].timeline)].status = orders'[o].status ]_vars

\* The prescription a refill call is working on
RefillTarget(c) == IF c.op = "requestRefill" THEN c.p ELSE c.items[c.idx].p

\* C26: every refill that a request or the scheduled check has processed took
\* one refill off the stored prescription, so that a prescription starting with
\* n refills is refilled at most n times; remainingRefills is never below 0.
C26_RefillsBoundedUnderConcurrency ==
  /\ [](\A p \in RxIds : rx[p].remainingRefills >= 0)
  /\ [][ \A t \in Threads :
           ( /\ calls[t].op \in RefillOps /\ calls[t].pc = "process"
             /\ calls'[t].n = calls[t].n + 1 )
             => rx'[RefillTarget(calls[t])].remainingRefills
                  = rx[RefillTarget(calls[t])].remainingRefills - 1 ]_vars

\* ------------------------------------------------------------ extendTimer
\* extendTimer(timerType, extensionMinutes = 5)
ExtensionMinutes == 5

\* orderSchema.methods.extendTimer: the deadline of the named timer moves on
\* and the document is saved
extendTimer(order, timerType) ==
  IF timerType = "pharmacy"
  THEN [order EXCEPT !.pharmacyApprovalEnd = @ + ExtensionMinutes]
  ELSE IF timerType = "customer"
  THEN [order EXCEPT !.customerConfirmationEnd = @ + ExtensionMinutes]
  ELSE order

\* No handler calls extendTimer; the model runs it on a stored order whose
\* timer of that type has been started
ExtendTimer(o, timerType) ==
  /\ Exists(o)
  /\ IF timerType = "pharmacy"
     THEN orders[o].pharmacyApprovalEnd # NoDate
          /\ orders[o].pharmacyApprovalEnd + ExtensionMinutes <= MaxTime
     ELSE orders[o].customerConfirmationEnd # NoDate
          /\ orders[o].customerConfirmationEnd + ExtensionMinutes <= MaxTime
  /\ orders' = [orders EXCEPT ![o] = extendTimer(@, timerType)]
  /\ UNCHANGED <<stock, rx, jobs, now, calls, adj, nCalls, fired, boots>>

\* The Scheduler with deadlines that are extended: one medicine, checkout with
\* a prescription, the pharmacy's answer, the clock, the jobs and the restart
NextExtend ==
  \/ \E t \in Threads :
       StartCreateOrder(t, << [medicine |-> "m1", quantity |-> 1] >>, TRUE)
  \/ \E t \in Threads : CreateOrderCreate(t)
  \/ \E t \in Threads : CreateOrderTimer(t)
  \/ \E t \in Threads : CreateOrderTimeline(t)
  \/ \E t \in Threads, o \in OrderIds, status \in {"approved", "rejected"} :
       StartUpdateOrderStatus(t, o, status)
  \/ \E t \in Threads : UpdateOrderStatusSave(t)
  \/ \E o \in OrderIds : ExtendTimer(o, "pharmacy")
  \/ \E t \in Threads, o \in OrderIds : FireJob(t, o)
  \/ \E t \in Threads : TimeoutSave(t)
  \/ \E t \in Threads : TimeoutFinally(t)
  \/ \E t \in Threads : Return(t)
  \/ Restart
  \/ Tick

SpecExtend == Init /\ [][NextExtend]_vars

\* C27: an armed job of an order is armed at the order's current approval
\* deadline, and the timeout callback of an order never starts before the
\* order's current deadline.  (Scheduler.jobs holds one job per order id.)
C27_JobFollowsDeadline ==
  /\ [](\A o \in OrderIds :
          jobs[o].armed => jobs[o].fireAt = orders[o].pharmacyApprovalEnd)
  /\ [][ \A o \in OrderIds :
           fired'[o] > fired[o] => orders[o].pharmacyApprovalEnd <= now ]_vars

\* ------------------------------------------------- the store out of reach
\* The job of an order fires and Order.findById rejects: catch logs the error,
\* finally runs next
FireJobError(t, o) ==
  /\ FreeWorker(t)
  /\ jobs[o].armed /\ jobs[o].fireAt <= now
  /\ jobs' = [jobs EXCEPT ![o].armed = FALSE]
  /\ fired' = [fired EXCEPT ![o] = @ + 1]
  /\ calls' = [calls EXCEPT ![t] =
       [Idle EXCEPT !.op = "orderTimeout", !.o = o, !.pc = "finally", !.res = "error"]]
  /\ UNCHANGED <<stock, orders, rx, now, adj, nCalls, boots>>

\* updatedOrder.save() rejects: nothing is written; catch, then finally
TimeoutSaveError(t) ==
  /\ calls[t].op = "orderTimeout" /\ calls[t].pc = "save"
  /\ calls' = [calls EXCEPT ![t] = [@ EXCEPT !.pc = "finally", !.res = "error"]]
  /\ UNCHANGED <<stock, orders, rx, jobs, now, adj, nCalls, fired, boots>>

\* The Scheduler with a store that may be out of reach when a job fires
NextRetry ==
  \/ \E t \in Threads :
       StartCreateOrder(t, << [medicine |-> "m1", quantity |-> 1] >>, TRUE)
  \/ \E t \in Threads : CreateOrderCreate(t)
  \/ \E t \in Threads : CreateOrderTimer(t)
  \/ \E t \in Threads : CreateOrderTimeline(t)
  \/ \E t \in Threads, o \in OrderIds, status \in {"approved", "rejected"} :
       StartUpdateOrderStatus(t, o, status)
  \/ \E t \in Threads : UpdateOrderStatusSave(t)
  \/ \E t \in Threads, o \in OrderIds : FireJob(t, o)
  \/ \E t \in Threads, o \in OrderIds : FireJobError(t, o)
  \/ \E t \in Threads : TimeoutSave(t)
  \/ \E t \in Threads : TimeoutSaveError(t)
  \/ \E t \in Threads : TimeoutFinally(t)
  \/ \E t \in Threads : Return(t)
  \/ Restart
  \/ Tick

SpecRetry == Init /\ [][NextRetry]_vars

\* C28: when the timeout callback of an order has failed with an error, the
\* step that ends the callback leaves the order's job registered under its id,
\* and armed again or due, so that the order still pending is cancelled later.
C28_FailedCallbackKeepsJob ==
  [][ \A t \in Threads :
        ( /\ calls[t].op = "orderTimeout" /\ calls[t].res = "error"
          /\ calls[t].pc = "finally" /\ calls'[t] # calls[t] )
          => jobs'[calls[t].o].has ]_vars

\* Medicine.prescriptionRequired of the catalog's medicines
PrescriptionRequired == [m \in Medicines |-> m = "m2"]

NeedsPrescription(items) ==
  \E i \in 1..Len(items) : PrescriptionRequired[items[i].medicine]

\* C29: every stored order that is not a cart carries a prescription exactly
\* when one of its items is a prescription-required medicine; no order with
\* such an item is approved or processing without a prescription.
C29_PrescriptionIffRequired ==
  \A o \in OrderIds :
    (Exists(o) /\ orders[o].status # "cart") =>
      /\ orders[o].prescription <=> NeedsPrescription(orders[o].items)
      /\ (NeedsPrescription(orders[o].items) /\ orders[o].status \in {"approved", "processing"})
           => orders[o].prescription

IsSelected(item) == item.selected

\* C30: the discountedAmount stored on every order, whether the cart
\* recomputation or the checkout wrote it, is the checkout's sum over the
\* selected items: quantity times the discountedPrice when the item has one,
\* otherwise the price.
C30_CartAndCheckoutAgree ==
  \A o \in OrderIds :
    Exists(o) =>
      orders[o].discountedAmount = SumDiscounted(SelectSeq(orders[o].items, IsSelected))

====
